---- MODULE Spec2Model ----
(***************************************************************************)
(* The triangle pipeline of src/src/gpu_renderer.rs (Renderer).            *)
(*                                                                         *)
(* f32 values are modelled as exact rationals <<n, d>> (d > 0, reduced);   *)
(* a colour (Vec4) and an attribute set are modelled by one scalar slot.   *)
(* Every call of draw_triangle is one action; the calls it makes on the    *)
(* attachments, the shader and the line rasterizer are recorded, in order, *)
(* in the variable log.                                                    *)
(***************************************************************************)
EXTENDS Integers, Sequences, FiniteSets, TLC

\* ------------------------------------------------------------------ bounds
W == 3          \* width of the attachments  (Renderer::new w)
H == 3          \* height of the attachments (Renderer::new h)
MaxOps == 3     \* number of operations called on the renderer in one run

\* --------------------------------------------------------- f32 arithmetic
\* stand-ins for f32::MIN and f32::MAX: below / above every value of the model
F32Min == -1000
F32Max == 1000

Abs(i) == IF i < 0 THEN -i ELSE i

RECURSIVE GCD(_, _)
GCD(a, b) == IF b = 0 THEN a ELSE GCD(b, a % b)

\* the rational n / d (d # 0), reduced, with a positive denominator
Rat(n, d) ==
    LET g == GCD(Abs(n), Abs(d))
        s == IF d < 0 THEN -1 ELSE 1
    IN  <<(s * n) \div g, (s * d) \div g>>

R(i) == <<i, 1>>

FAdd(a, b) == Rat(a[1] * b[2] + b[1] * a[2], a[2] * b[2])
FSub(a, b) == Rat(a[1] * b[2] - b[1] * a[2], a[2] * b[2])
FMul(a, b) == Rat(a[1] * b[1], a[2] * b[2])
\* b # 0
FDiv(a, b) == Rat(a[1] * b[2], a[2] * b[1])
FLt(a, b) == a[1] * b[2] < b[1] * a[2]
FLe(a, b) == a[1] * b[2] <= b[1] * a[2]
FIsZero(a) == a[1] = 0

\* f32::ceil, f32::floor (integer results)
Ceil(a) == -((-a[1]) \div a[2])
Floor(a) == a[1] \div a[2]
\* f32::max, f32::min on integer-valued operands
IMax(i, j) == IF i < j THEN j ELSE i
IMin(i, j) == IF i < j THEN i ELSE j

\* `f as u32`: a negative value saturates to 0 (the upper saturation at
\* u32::MAX is out of the model's range)
AsU32(i) == IF i < 0 THEN 0 ELSE i

\* ------------------------------------------------------------ math::Mat4
Identity == <<<<1, 0, 0, 0>>, <<0, 1, 0, 0>>, <<0, 0, 1, 0>>, <<0, 0, 0, 1>>>>

Dot4(a, b) == a[1] * b[1] + a[2] * b[2] + a[3] * b[3] + a[4] * b[4]
Col(m, j) == <<m[1][j], m[2][j], m[3][j], m[4][j]>>
\* Mat4 * Mat4
MatRow(r, b) == <<Dot4(r, Col(b, 1)), Dot4(r, Col(b, 2)), Dot4(r, Col(b, 3)), Dot4(r, Col(b, 4))>>
MatMul(a, b) == <<MatRow(a[1], b), MatRow(a[2], b), MatRow(a[3], b), MatRow(a[4], b)>>
\* Mat4 * Vec4
MatVec(m, v) == <<Dot4(m[1], v), Dot4(m[2], v), Dot4(m[3], v), Dot4(m[4], v)>>

\* --------------------------------------------------------- camera::Camera
\* a perspective projection: w' = -z
Perspective == <<<<1, 0, 0, 0>>, <<0, 1, 0, 0>>, <<0, 0, 1, 0>>, <<0, 0, -1, 0>>>>

Camera(near) ==
    [view_mat |-> Identity, frustum |-> [mat |-> Perspective, near |-> R(near)]]

Cameras == {Camera(-1), Camera(-3)}

\* ------------------------------------------------------ renderer::Viewport
viewport == [x |-> 0, y |-> 0, w |-> W, h |-> H]

\* ------------------------------------------------------------ vertex, shader
Vtx(x, y, z, a) == [position |-> <<x, y, z, 1>>, attributes |-> R(a)]

\* Shader::call_vertex_changing with the default vertex function
call_vertex_changing(v) == v

\* Shader::call_pixel_shading: the colour is the interpolated attribute
call_pixel_shading(attr) == attr

FrontFaces == {"CCW", "CW"}
FaceCulls == {"None", "Front", "Back"}

\* renderer::should_cull(positions, view_dir, front_face, cull): the triangle's
\* normal against the view direction; a zero dot product is neither front nor back
Cross3(a, b) ==
    <<a[2] * b[3] - a[3] * b[2], a[3] * b[1] - a[1] * b[3], a[1] * b[2] - a[2] * b[1]>>
Sub3(a, b) == <<a[1] - b[1], a[2] - b[2], a[3] - b[3]>>
Dot3(a, b) == a[1] * b[1] + a[2] * b[2] + a[3] * b[3]

should_cull(positions, view_dir, face, cull_mode) ==
    LET norm == Cross3(Sub3(positions[2], positions[1]), Sub3(positions[3], positions[2]))
        d == Dot3(norm, view_dir)
        ccw == d < 0
        cw == d > 0
        front == IF face = "CCW" THEN ccw ELSE cw
        back == IF face = "CCW" THEN cw ELSE ccw
    IN  CASE cull_mode = "None" -> FALSE
          [] cull_mode = "Front" -> front
          [] cull_mode = "Back" -> back

\* math::Berycentric::new(point, [v0, v1, v2]) with is_valid / alpha / beta / gamma:
\* the weights of the point; valid iff the triangle has an area and all are >= 0
Cross2(ax, ay, bx, by) == FSub(FMul(ax, by), FMul(ay, bx))

Berycentric(p, vs) ==
    LET area == Cross2(FSub(vs[2][1], vs[1][1]), FSub(vs[2][2], vs[1][2]),
                       FSub(vs[3][1], vs[1][1]), FSub(vs[3][2], vs[1][2]))
        e(a, b) == Cross2(FSub(a[1], p[1]), FSub(a[2], p[2]),
                          FSub(b[1], p[1]), FSub(b[2], p[2]))
    IN  IF FIsZero(area)
        THEN [valid |-> FALSE, alpha |-> R(0), beta |-> R(0), gamma |-> R(0)]
        ELSE LET al == FDiv(e(vs[2], vs[3]), area)
                 be == FDiv(e(vs[3], vs[1]), area)
                 ga == FDiv(e(vs[1], vs[2]), area)
             IN  [valid |-> FLe(R(0), al) /\ FLe(R(0), be) /\ FLe(R(0), ga),
                  alpha |-> al, beta |-> be, gamma |-> ga]

\* ------------------------------------------------- image::*Attachment
Pixels == (0..(W - 1)) \X (0..(H - 1))

\* ColorAttachment::clear / DepthAttachment::clear
AttachmentClear(value) == [p \in Pixels |-> value]
\* DepthAttachment::get; an access outside the grid is not a value of the grid
AttachmentGet(att, x, y) == IF <<x, y>> \in DOMAIN att THEN att[<<x, y>>] ELSE R(0)
\* ColorAttachment::set / DepthAttachment::set
AttachmentSet(att, x, y, value) ==
    IF <<x, y>> \in DOMAIN att THEN [att EXCEPT ![<<x, y>>] = value] ELSE att

\* one recorded call: the operation, the triangle it belongs to, the pixel, the value
Ev(op, tri, x, y, v) == [op |-> op, tri |-> tri, x |-> x, y |-> y, v |-> v]
Record(self, e) == [self EXCEPT !.log = Append(@, e)]

\* 1 / 0.0
Inf == <<1, 0>>

\* ------------------------------------------ draw_triangle: per-triangle stages
WithPosition(v, p) == [v EXCEPT !.position = p]

VertexShading(vs) ==
    <<call_vertex_changing(vs[1]), call_vertex_changing(vs[2]), call_vertex_changing(vs[3])>>

\* v.position = view_mat * model * v.position
ModelView(self, model, vs) ==
    LET m == MatMul(self.camera.view_mat, model)
    IN  <<WithPosition(vs[1], MatVec(m, vs[1].position)),
          WithPosition(vs[2], MatVec(m, vs[2].position)),
          WithPosition(vs[3], MatVec(m, vs[3].position))>>

\* v.position = frustum.mat * v.position
Project(self, vs) ==
    LET m == self.camera.frustum.mat
    IN  <<WithPosition(vs[1], MatVec(m, vs[1].position)),
          WithPosition(vs[2], MatVec(m, vs[2].position)),
          WithPosition(vs[3], MatVec(m, vs[3].position))>>

\* v.position.z = -v.position.w
TruelyZ(p) == <<p[1], p[2], -p[4], p[4]>>
SetTruelyZ(vs) ==
    <<WithPosition(vs[1], TruelyZ(vs[1].position)),
      WithPosition(vs[2], TruelyZ(vs[2].position)),
      WithPosition(vs[3], TruelyZ(vs[3].position))>>

\* x /= w; y /= w   (w # 0: the callers' obligation)
Divided(p) == <<Rat(p[1], p[4]), Rat(p[2], p[4]), p[3], p[4]>>
PerspectiveDivide(vs) ==
    <<WithPosition(vs[1], Divided(vs[1].position)),
      WithPosition(vs[2], Divided(vs[2].position)),
      WithPosition(vs[3], Divided(vs[3].position))>>

\* x = (x + 1.0) * 0.5 * (viewport.w - 1.0) + viewport.x
\* y = viewport.h - (y + 1.0) * 0.5 * (viewport.h - 1.0) + viewport.y
OnScreen(p) ==
    LET half == <<1, 2>>
    IN  <<FAdd(FMul(FMul(FAdd(p[1], R(1)), half), R(viewport.w - 1)), R(viewport.x)),
          FAdd(FSub(R(viewport.h),
                    FMul(FMul(FAdd(p[2], R(1)), half), R(viewport.h - 1))),
               R(viewport.y)),
          p[3], p[4]>>
ViewportTransform(vs) ==
    <<WithPosition(vs[1], OnScreen(vs[1].position)),
      WithPosition(vs[2], OnScreen(vs[2].position)),
      WithPosition(vs[3], OnScreen(vs[3].position))>>

\* the fold over the three vertices, from f32::MAX / f32::MIN
FoldMin(vs, c) ==
    LET step(min, v) == IF FLt(v.position[c], min) THEN v.position[c] ELSE min
    IN  step(step(step(R(F32Max), vs[1]), vs[2]), vs[3])
FoldMax(vs, c) ==
    LET step(max, v) == IF FLt(max, v.position[c]) THEN v.position[c] ELSE max
    IN  step(step(step(R(F32Min), vs[1]), vs[2]), vs[3])

aabb_min_x(vs) == IMax(Ceil(FoldMin(vs, 1)), 0)
aabb_min_y(vs) == IMax(Ceil(FoldMin(vs, 2)), 0)
\* a plausible slip: the clamp to the width is left out
aabb_max_x_Unclamped(vs) == Floor(FoldMax(vs, 1))
aabb_max_x(vs) == IMin(Floor(FoldMax(vs, 1)), W - 1)
aabb_max_y(vs) == IMin(Floor(FoldMax(vs, 2)), H - 1)

\* a..=b
RangeLen(a, b) == IF b < a THEN 0 ELSE b - a + 1

\* a plausible slip: the loops nested the other way round, y outside and x inside
PixelWalk_RowMajor(vs) ==
    LET x0 == AsU32(aabb_min_x(vs))
        y0 == AsU32(aabb_min_y(vs))
        nx == RangeLen(x0, AsU32(aabb_max_x(vs)))
        ny == RangeLen(y0, AsU32(aabb_max_y(vs)))
    IN  [k \in 1..(nx * ny) |-> <<x0 + ((k - 1) % nx), y0 + ((k - 1) \div nx)>>]

\* the pixels of `for x in min.x as u32..=max.x as u32 { for y in min.y as u32..=max.y as u32`
\* in the order the loops reach them
PixelWalk(vs) ==
    LET x0 == AsU32(aabb_min_x(vs))
        y0 == AsU32(aabb_min_y(vs))
        nx == RangeLen(x0, AsU32(aabb_max_x(vs)))
        ny == RangeLen(y0, AsU32(aabb_max_y(vs)))
    IN  [k \in 1..(nx * ny) |-> <<x0 + ((k - 1) \div ny), y0 + ((k - 1) % ny)>>]

Vec3(p) == <<p[1], p[2], p[3]>>
Vec2(p) == <<p[1], p[2]>>
\* vertices.map(|v| v.position.truncated_to_vec3())
Truncated(vs) == <<Vec3(vs[1].position), Vec3(vs[2].position), Vec3(vs[3].position)>>
\* vertices.map(|v| Vec2::new(v.position.x, v.position.y))
Positions2(vs) == <<Vec2(vs[1].position), Vec2(vs[2].position), Vec2(vs[3].position)>>

\* get_corrected_attribute, one float slot
get_corrected_attribute(z, vs, b) ==
    FMul(FAdd(FAdd(FDiv(FMul(vs[1].attributes, b.alpha), R(vs[1].position[3])),
                   FDiv(FMul(vs[2].attributes, b.beta), R(vs[2].position[3]))),
              FDiv(FMul(vs[3].attributes, b.gamma), R(vs[3].position[3]))),
         z)

\* 1.0 / (alpha / z0 + beta / z1 + gamma / z2)
InterpolatedZ(vs, b) ==
    LET inv_z == FAdd(FAdd(FDiv(b.alpha, R(vs[1].position[3])),
                           FDiv(b.beta, R(vs[2].position[3]))),
                      FDiv(b.gamma, R(vs[3].position[3])))
    IN  IF FIsZero(inv_z) THEN Inf ELSE FDiv(R(1), inv_z)

\* a plausible slip: z <= near
NearTest_Le(self, z) == FLe(z, self.camera.frustum.near)
\* z < near
NearTest(self, z) == FLt(z, self.camera.frustum.near)
\* a plausible slip: depth_attachment.get(x, y) < z
DepthTest_Strict(d, z) == FLt(d, z)
\* depth_attachment.get(x, y) <= z
DepthTest(d, z) == FLe(d, z)

\* a plausible slip: the validity of the weights is not tested
Covered_Always(b) == TRUE
\* berycentric.is_valid()
Covered(b) == b.valid

\* a plausible slip: the colour is blended with the stored colour, not written over it
Fragment_Blend(self, i, vs, x, y) ==
    LET b == Berycentric(<<R(x), R(y)>>, Positions2(vs))
    IN  IF ~Covered(b)
        THEN Record(self, Ev("visit", i, x, y, <<FALSE>>))
        ELSE
        LET z == InterpolatedZ(vs, b)
            s1 == Record(self, Ev("visit", i, x, y, <<TRUE, z>>))
        IN  IF ~NearTest(self, z) THEN s1
            ELSE
            LET d == AttachmentGet(self.depth_attachment, x, y)
                s2 == Record(s1, Ev("depth_get", i, x, y, d))
            IN  IF ~DepthTest(d, z) THEN s2
                ELSE
                LET attr == get_corrected_attribute(z, vs, b)
                    color == FMul(<<1, 2>>,
                                  FAdd(AttachmentGet(self.color_attachment, x, y),
                                       call_pixel_shading(attr)))
                    s3 == Record(s2, Ev("call_pixel_shading", i, x, y, attr))
                    s4 == [s3 EXCEPT
                             !.color_attachment = AttachmentSet(@, x, y, color),
                             !.log = Append(@, Ev("color_set", i, x, y, color))]
                IN  [s4 EXCEPT
                       !.depth_attachment = AttachmentSet(@, x, y, z),
                       !.log = Append(@, Ev("depth_set", i, x, y, z))]

\* the body of the pixel loop for the pixel (x, y) of triangle i
Fragment(self, i, vs, x, y) ==
    LET b == Berycentric(<<R(x), R(y)>>, Positions2(vs))
    IN  IF ~Covered(b)
        THEN Record(self, Ev("visit", i, x, y, <<FALSE>>))
        ELSE
        LET z == InterpolatedZ(vs, b)
            s1 == Record(self, Ev("visit", i, x, y, <<TRUE, z>>))
        IN  IF ~NearTest(self, z) THEN s1
            ELSE
            LET d == AttachmentGet(self.depth_attachment, x, y)
                s2 == Record(s1, Ev("depth_get", i, x, y, d))
            IN  IF ~DepthTest(d, z) THEN s2
                ELSE
                LET attr == get_corrected_attribute(z, vs, b)
                    color == call_pixel_shading(attr)
                    s3 == Record(s2, Ev("call_pixel_shading", i, x, y, attr))
                    s4 == [s3 EXCEPT
                             !.color_attachment = AttachmentSet(@, x, y, color),
                             !.log = Append(@, Ev("color_set", i, x, y, color))]
                IN  [s4 EXCEPT
                       !.depth_attachment = AttachmentSet(@, x, y, z),
                       !.log = Append(@, Ev("depth_set", i, x, y, z))]

RECURSIVE PixelLoop(_, _, _, _, _)
PixelLoop(self, i, vs, walk, k) ==
    IF k > Len(walk) THEN self
    ELSE PixelLoop(Fragment(self, i, vs, walk[k][1], walk[k][2]), i, vs, walk, k + 1)

\* ------------------------------------------------ line rasterizer (external)
FAbs(a) == <<Abs(a[1]), a[2]>>
FMaxOf(a, b) == IF FLt(a, b) THEN b ELSE a
FMinOf(a, b) == IF FLt(a, b) THEN a ELSE b

\* the pixels of the grid along the segment from a to b (positions on screen)
LinePixels(a, b) ==
    LET dx == FSub(b[1], a[1])
        dy == FSub(b[2], a[2])
        m == FMaxOf(FAbs(dx), FAbs(dy))
        half == <<1, 2>>
        Near(p) ==
            /\ FLe(FSub(FMinOf(a[1], b[1]), half), R(p[1]))
            /\ FLe(R(p[1]), FAdd(FMaxOf(a[1], b[1]), half))
            /\ FLe(FSub(FMinOf(a[2], b[2]), half), R(p[2]))
            /\ FLe(R(p[2]), FAdd(FMaxOf(a[2], b[2]), half))
            /\ FLe(FMul(R(2), FAbs(FSub(FMul(dx, FSub(R(p[2]), a[2])),
                                        FMul(dy, FSub(R(p[1]), a[1]))))),
                   m)
    IN  {p \in Pixels : Near(p)}

\* line::Line::new(v1, v2)
Line(v1, v2) == <<v1, v2>>

\* rasterize_line(line, pixel_shading, uniforms, textures, color, depth): writes
\* pixels along the line only
rasterize_line(self, i, line) ==
    LET on == LinePixels(line[1].position, line[2].position)
        color == call_pixel_shading(line[1].attributes)
    IN  [self EXCEPT
           !.color_attachment = [p \in Pixels |-> IF p \in on THEN color ELSE @[p]],
           !.depth_attachment =
               [p \in Pixels |-> IF p \in on THEN line[1].position[3] ELSE @[p]],
           !.log = Append(@, Ev("rasterize_line", i, 0, 0, line))]

\* v.position.z = 1.0 / v.position.z
Reciprocal(v) == [v EXCEPT !.position[3] = Rat(1, @)]

\* the edge (e, (e + 1) % 3) of the triangle, e in 0..2
Edge(vs, e) == Line(Reciprocal(vs[e + 1]), Reciprocal(vs[((e + 1) % 3) + 1]))

\* for i in 0..3 { rasterize_line(...) }
Framework(self, i, vs) ==
    rasterize_line(rasterize_line(rasterize_line(self, i, Edge(vs, 0)), i, Edge(vs, 1)),
                   i, Edge(vs, 2))

\* ------------------------------------------------------------ draw_triangle
ViewDir == <<0, 0, -1>>

\* the vertices of triangle i (from 0) after the stages up to the viewport transform
ScreenVertices(self, mv) ==
    ViewportTransform(PerspectiveDivide(SetTruelyZ(Project(self, mv))))

\* a plausible slip: the flag is not tested, the pixel loop always runs
Rasterize_AlwaysFill(self, i, vs) == PixelLoop(self, i, vs, PixelWalk(vs), 1)

\* the branch on the wireframe flag
Rasterize(self, i, vs) ==
    IF self.enable_framework
    THEN Framework(self, i, vs)
    ELSE PixelLoop(self, i, vs, PixelWalk(vs), 1)

\* a plausible slip: the result of should_cull is not acted upon
Triangle_NoCull(self, i, model, vertices) ==
    LET read == <<i * 3, 1 + i * 3, 2 + i * 3>>
        tri == <<vertices[read[1] + 1], vertices[read[2] + 1], vertices[read[3] + 1]>>
        s1 == Record(self, Ev("triangle", i, 0, 0, read))
        mv == ModelView(self, model, VertexShading(tri))
    IN  Rasterize(Record(s1, Ev("project", i, 0, 0, <<>>)), i, ScreenVertices(self, mv))

\* one iteration of `for i in 0..vertices.len() / 3`
Triangle(self, i, model, vertices) ==
    LET read == <<i * 3, 1 + i * 3, 2 + i * 3>>
        tri == <<vertices[read[1] + 1], vertices[read[2] + 1], vertices[read[3] + 1]>>
        s1 == Record(self, Ev("triangle", i, 0, 0, read))
        mv == ModelView(self, model, VertexShading(tri))
    IN  IF should_cull(Truncated(mv), ViewDir, self.front_face, self.cull)
        THEN Record(s1, Ev("cull", i, 0, 0, <<>>))
        ELSE Rasterize(Record(s1, Ev("project", i, 0, 0, <<>>)), i,
                       ScreenVertices(self, mv))

\* a plausible slip: (len - 1) / 3
TriangleCount_Short(vertices) == (Len(vertices) - 1) \div 3
\* vertices.len() / 3_usize
TriangleCount(vertices) == Len(vertices) \div 3

RECURSIVE TriangleLoop(_, _, _, _)
TriangleLoop(self, i, model, vertices) ==
    IF i >= TriangleCount(vertices) THEN self
    ELSE TriangleLoop(Triangle(self, i, model, vertices), i + 1, model, vertices)

draw_triangle(self, model, vertices) == TriangleLoop(self, 0, model, vertices)

\* ------------------------------------------------------------------ inputs
\* model matrices
MirrorX == <<<<-1, 0, 0, 0>>, <<0, 1, 0, 0>>, <<0, 0, 1, 0>>, <<0, 0, 0, 1>>>>

\* triangles in view space (the camera looks down -z), attribute a at each vertex
TriBig(a) == <<Vtx(-2, 4, -2, a), Vtx(-2, 0, -2, a), Vtx(2, 0, -2, a)>>
TriBigCW(a) == <<Vtx(-2, 4, -2, a), Vtx(2, 0, -2, a), Vtx(-2, 0, -2, a)>>
TriFar(a) == <<Vtx(-4, 8, -4, a), Vtx(-4, 0, -4, a), Vtx(4, 0, -4, a)>>
\* across the near plane, a different attribute at each vertex
TriStraddle == <<Vtx(-1, 2, -1, 1), Vtx(-3, 0, -3, 4), Vtx(3, 0, -3, 7)>>
\* one vertex off the screen
TriPartial(a) == <<Vtx(-8, 2, -2, a), Vtx(2, 0, -2, a), Vtx(2, 4, -2, a)>>
\* wholly off the screen, on each side
TriLeft(a) == <<Vtx(-6, 4, -2, a), Vtx(-6, 0, -2, a), Vtx(-3, 2, -2, a)>>
TriRight(a) == <<Vtx(9, 4, -2, a), Vtx(9, 0, -2, a), Vtx(12, 2, -2, a)>>
TriAbove(a) == <<Vtx(-2, 12, -2, a), Vtx(0, 9, -2, a), Vtx(2, 12, -2, a)>>
TriBelow(a) == <<Vtx(-2, -8, -2, a), Vtx(2, -8, -2, a), Vtx(0, -5, -2, a)>>

DrawInput(model, vertices) == [model |-> model, vertices |-> vertices]

DrawInputs ==
    { DrawInput(Identity, SubSeq(TriBig(1), 1, 2)),
      DrawInput(Identity, TriBigCW(2) \o TriBig(1) \o SubSeq(TriFar(3), 1, 1)),
      DrawInput(Identity, TriFar(3) \o TriStraddle),
      DrawInput(MirrorX, TriPartial(5)),
      DrawInput(Identity, TriLeft(6)),
      DrawInput(Identity, TriRight(6)),
      DrawInput(Identity, TriAbove(6)),
      DrawInput(Identity, TriBelow(6)) }

ClearColors == {R(9)}

\* ------------------------------------------------------------------- state
VARIABLES
    color_attachment,   \* Renderer.color_attachment: pixel -> colour
    depth_attachment,   \* Renderer.depth_attachment: pixel -> depth
    camera,             \* Renderer.camera
    front_face,         \* Renderer.front_face
    cull,               \* Renderer.cull
    enable_framework,   \* Renderer.enable_framework
    log,                \* the calls made by the last operation, in order
    call,               \* the last operation: its name, its argument, the renderer before it
    before,             \* the attachments and the call before the last operation
    best,               \* per pixel, since clear_depth: <<>> or the <<z, colour>> of the
                        \* last of the fragments of greatest z that passed the near test
    tracking,           \* clear_depth was called and only fill draws followed it
    ops                 \* number of operations called

vars == <<color_attachment, depth_attachment, camera, front_face, cull,
          enable_framework, log, call, before, best, tracking, ops>>

\* &mut self, with the calls recorded so far
Self ==
    [color_attachment |-> color_attachment, depth_attachment |-> depth_attachment,
     camera |-> camera, front_face |-> front_face, cull |-> cull,
     enable_framework |-> enable_framework, log |-> <<>>]

Config ==
    [camera |-> camera, front_face |-> front_face, cull |-> cull,
     enable_framework |-> enable_framework]

Call(op, arg) == [op |-> op, arg |-> arg, self |-> Config]

\* the bookkeeping every operation shares
Called(op, arg) ==
    /\ ops < MaxOps
    /\ ops' = ops + 1
    /\ call' = Call(op, arg)
    /\ before' = [color |-> color_attachment, depth |-> depth_attachment, call |-> call]

NoBest == [p \in Pixels |-> <<>>]

\* Renderer::new(w, h, camera)
Init ==
    /\ color_attachment = AttachmentClear(R(0))
    /\ depth_attachment = AttachmentClear(R(F32Min))
    /\ camera = Camera(-1)
    /\ front_face = "CCW"
    /\ cull = "None"
    /\ enable_framework = FALSE
    /\ log = <<>>
    /\ call = [op |-> "new", arg |-> <<>>, self |-> <<>>]
    /\ before = [color |-> color_attachment, depth |-> depth_attachment, call |-> <<>>]
    /\ best = NoBest
    /\ tracking = FALSE
    /\ ops = 0

\* --------------------------------------------- fragments (history of best)
\* the fragment of a triangle with screen vertices vs at pixel p: <<z, colour>> when
\* the triangle covers the pixel centre and its z passes the near test; else <<>>
FragmentAt(self, vs, p) ==
    LET b == Berycentric(<<R(p[1]), R(p[2])>>, Positions2(vs))
    IN  IF ~b.valid THEN <<>>
        ELSE LET z == InterpolatedZ(vs, b)
             IN  IF FLt(z, self.camera.frustum.near)
                 THEN <<z, call_pixel_shading(get_corrected_attribute(z, vs, b))>>
                 ELSE <<>>

\* the best fragment after one more fragment f
Better(old, f) ==
    IF f = <<>> THEN old
    ELSE IF old = <<>> THEN f
    ELSE IF FLt(f[1], old[1]) THEN old ELSE f

\* <<>> when the face cull discards triangle i (from 1), else its screen vertices
KeptOne(self, model, vertices, i) ==
    LET mv == ModelView(self, model,
                        VertexShading(<<vertices[3 * i - 2], vertices[3 * i - 1],
                                        vertices[3 * i]>>))
    IN  IF should_cull(Truncated(mv), ViewDir, self.front_face, self.cull)
        THEN <<>>
        ELSE ScreenVertices(self, mv)

\* KeptOne of every triangle of the draw, in array order
RECURSIVE Kept(_, _, _, _)
Kept(acc, self, model, vertices) ==
    IF Len(acc) >= Len(vertices) \div 3 THEN acc
    ELSE Kept(Append(acc, KeptOne(self, model, vertices, Len(acc) + 1)),
              self, model, vertices)

RECURSIVE BestAt(_, _, _, _, _)
BestAt(old, self, kept, i, p) ==
    IF i > Len(kept) THEN old
    ELSE BestAt(IF kept[i] = <<>> THEN old ELSE Better(old, FragmentAt(self, kept[i], p)),
                self, kept, i + 1, p)

UpdateBest(b, self, model, vertices) ==
    LET kept == Kept(<<>>, self, model, vertices)
    IN  [p \in Pixels |-> BestAt(b[p], self, kept, 1, p)]

\* ----------------------------------------------------------------- actions
Clear(color) ==
    /\ Called("clear", color)
    /\ color_attachment' = AttachmentClear(color)
    /\ log' = <<>>
    /\ tracking' = FALSE
    /\ best' = NoBest
    /\ UNCHANGED <<depth_attachment, camera, front_face, cull, enable_framework>>

ClearDepth ==
    /\ Called("clear_depth", <<>>)
    /\ depth_attachment' = AttachmentClear(R(F32Min))
    /\ log' = <<>>
    /\ tracking' = TRUE
    /\ best' = NoBest
    /\ UNCHANGED <<color_attachment, camera, front_face, cull, enable_framework>>

DrawTriangle(inp) ==
    LET r == draw_triangle(Self, inp.model, inp.vertices)
        fill == tracking /\ ~enable_framework
    IN  /\ Called("draw_triangle", inp)
        /\ color_attachment' = r.color_attachment
        /\ depth_attachment' = r.depth_attachment
        /\ log' = r.log
        /\ tracking' = fill
        /\ best' = IF fill THEN UpdateBest(best, Self, inp.model, inp.vertices)
                   ELSE NoBest
        /\ UNCHANGED <<camera, front_face, cull, enable_framework>>

SetCamera(c) ==
    /\ Called("set_camera", c)
    /\ camera' = c
    /\ log' = <<>>
    /\ tracking' = FALSE
    /\ best' = NoBest
    /\ UNCHANGED <<color_attachment, depth_attachment, front_face, cull, enable_framework>>

SetFrontFace(f) ==
    /\ Called("set_front_face", f)
    /\ front_face' = f
    /\ log' = <<>>
    /\ UNCHANGED <<color_attachment, depth_attachment, camera, cull, enable_framework,
                   tracking, best>>

SetFaceCull(c) ==
    /\ Called("set_face_cull", c)
    /\ cull' = c
    /\ log' = <<>>
    /\ UNCHANGED <<color_attachment, depth_attachment, camera, front_face,
                   enable_framework, tracking, best>>

EnableFramework ==
    /\ Called("enable_framework", <<>>)
    /\ enable_framework' = TRUE
    /\ log' = <<>>
    /\ UNCHANGED <<color_attachment, depth_attachment, camera, front_face, cull,
                   tracking, best>>

DisableFramework ==
    /\ Called("disable_framework", <<>>)
    /\ enable_framework' = FALSE
    /\ log' = <<>>
    /\ UNCHANGED <<color_attachment, depth_attachment, camera, front_face, cull,
                   tracking, best>>

Next ==
    \/ \E color \in ClearColors : Clear(color)
    \/ ClearDepth
    \/ \E inp \in DrawInputs : DrawTriangle(inp)
    \/ \E c \in Cameras \ {camera} : SetCamera(c)
    \/ \E f \in FrontFaces \ {front_face} : SetFrontFace(f)
    \/ \E c \in FaceCulls \ {cull} : SetFaceCull(c)
    \/ EnableFramework
    \/ DisableFramework

Spec == Init /\ [][Next]_vars

\* ------------------------------------------------- reading the last call
IsDraw == call.op = "draw_triangle"
FillDraw == IsDraw /\ ~call.self.enable_framework
WireDraw == IsDraw /\ call.self.enable_framework

Unchanged == color_attachment = before.color /\ depth_attachment = before.depth

\* the events of the log with operation op / of triangle i
EventsOp(op) == SelectSeq(log, LAMBDA e : e.op = op)
EventsOf(i) == SelectSeq(log, LAMBDA e : e.tri = i)
OpsOf(seq) == [k \in 1..Len(seq) |-> seq[k].op]
Writes == {"color_set", "depth_set"}
Accesses == {"color_set", "depth_get", "depth_set"}

\* triangle i (from 0) of the last draw: its input vertices, in view space, on screen
InputOf(i) ==
    <<call.arg.vertices[3 * i + 1], call.arg.vertices[3 * i + 2],
      call.arg.vertices[3 * i + 3]>>
ViewOf(i) == ModelView(call.self, call.arg.model, VertexShading(InputOf(i)))
ScreenOf(i) == ScreenVertices(call.self, ViewOf(i))
Discarded(i) ==
    should_cull(Truncated(ViewOf(i)), ViewDir, call.self.front_face, call.self.cull)

\* the least / greatest screen coordinate c (1 = x, 2 = y) of triangle i
MinOf(i, c) ==
    LET vs == ScreenOf(i)
    IN  FMinOf(FMinOf(vs[1].position[c], vs[2].position[c]), vs[3].position[c])
MaxOf(i, c) ==
    LET vs == ScreenOf(i)
    IN  FMaxOf(FMaxOf(vs[1].position[c], vs[2].position[c]), vs[3].position[c])

\* ------------------------------------------------------------------- C1
\* C1: a draw of n vertices processes exactly the floor(n/3) triangles
\* (3i, 3i+1, 3i+2), i < floor(n/3), in order, reads no vertex of index
\* >= 3*floor(n/3), and with n < 3 changes neither attachment.
C1_Triangles ==
    IsDraw =>
        LET n == Len(call.arg.vertices)
            q == (n - (n % 3)) \div 3
            tris == EventsOp("triangle")
        IN  /\ Len(tris) = q
            /\ \A i \in 1..Len(tris) :
                   /\ tris[i].tri = i - 1
                   /\ tris[i].v = <<3 * (i - 1), 3 * (i - 1) + 1, 3 * (i - 1) + 2>>
                   /\ \A k \in 1..3 : tris[i].v[k] < n - (n % 3)
            /\ \A k \in 1..Len(log) : log[k].tri \in 0..(q - 1)
            /\ (n < 3 => log = <<>> /\ Unchanged)

\* a draw of 7 vertices: two triangles written, the seventh vertex left over
C1_Witness ==
    /\ IsDraw
    /\ Len(call.arg.vertices) = 7
    /\ Len(EventsOp("triangle")) = 2
    /\ ~Unchanged

\* ------------------------------------------------------------------- C2
\* C2: in the fill path every color set, depth get and depth set of a draw is at a
\* pixel of the grid: 0 <= x <= W-1 and 0 <= y <= H-1.
C2_InBounds ==
    FillDraw =>
        \A k \in 1..Len(log) :
            log[k].op \in Accesses =>
                /\ 0 <= log[k].x /\ log[k].x <= W - 1
                /\ 0 <= log[k].y /\ log[k].y <= H - 1

\* a fill draw that writes pixels of a triangle with a vertex beyond the right edge
C2_Witness ==
    /\ FillDraw
    /\ Len(call.arg.vertices) >= 3
    /\ FLt(R(W - 1), MaxOf(0, 1))
    /\ \E k \in 1..Len(log) : log[k].op = "color_set" /\ log[k].tri = 0

\* ------------------------------------------------------------------- C3
\* the bounding box of triangle i on screen lies wholly off the grid
Outside(i) ==
    \/ FLt(MaxOf(i, 1), R(0))
    \/ FLt(MaxOf(i, 2), R(0))
    \/ FLt(R(W - 1), MinOf(i, 1))
    \/ FLt(R(H - 1), MinOf(i, 2))

\* C3: in the fill path a triangle whose screen bounding box lies wholly off the
\* grid writes nothing; a draw of such triangles only leaves both attachments as
\* they were.
C3_OutsideNoFragments ==
    FillDraw =>
        LET q == Len(call.arg.vertices) \div 3
        IN  /\ \A i \in 0..(q - 1) :
                   Outside(i) => \A k \in 1..Len(log) :
                                     log[k].tri = i => log[k].op \notin Writes
            /\ ((\A i \in 0..(q - 1) : Outside(i)) => Unchanged)

\* a fill draw of a triangle wholly left of or above the grid, after which the
\* loop still visited pixels of column 0 or row 0
C3_Witness ==
    /\ FillDraw
    /\ Len(call.arg.vertices) = 3
    /\ Outside(0)
    /\ ~Discarded(0)
    /\ EventsOp("visit") # <<>>

\* ------------------------------------------------------------------- C4
\* the depth sets of the last draw at pixel p, in order
DepthSetsAt(p) ==
    SelectSeq(log, LAMBDA e : e.op = "depth_set" /\ e.x = p[1] /\ e.y = p[2])

\* C4: after clear_depth and fill draws only (camera unchanged), at every pixel the
\* depth is f32::MIN when no fragment with z < near covered it, and else the
\* greatest z of those fragments, the colour being the output of the last of the
\* fragments of that z; and the depth written to a pixel never decreases.
C4_KeepsGreatestZ ==
    /\ tracking =>
           \A p \in Pixels :
               IF best[p] = <<>>
               THEN depth_attachment[p] = R(F32Min)
               ELSE /\ depth_attachment[p] = best[p][1]
                    /\ color_attachment[p] = best[p][2]
    /\ (tracking /\ IsDraw) =>
           \A p \in Pixels :
               LET sets == DepthSetsAt(p)
               IN  \A k \in 1..Len(sets) :
                       FLe(IF k = 1 THEN before.depth[p] ELSE sets[k - 1].v, sets[k].v)

\* after clear_depth, a second fill draw in which one pixel is overwritten by a
\* fragment of greater z, another keeps its depth against a fragment of smaller z,
\* and a third is written twice with the same z and two colours
C4_Witness ==
    /\ tracking /\ IsDraw
    /\ before.call.op = "draw_triangle"
    /\ \E k \in 1..Len(log) :
           /\ log[k].op = "depth_set"
           /\ before.depth[<<log[k].x, log[k].y>>] # R(F32Min)
           /\ FLt(before.depth[<<log[k].x, log[k].y>>], log[k].v)
    /\ \E k \in 1..Len(log) :
           /\ log[k].op = "depth_get"
           /\ (k = Len(log) \/ log[k + 1].op # "call_pixel_shading")
    /\ \E j, k \in 1..Len(log) :
           /\ j < k
           /\ log[j].op = "color_set" /\ log[k].op = "color_set"
           /\ log[j].x = log[k].x /\ log[j].y = log[k].y
           /\ log[j].v # log[k].v

\* ------------------------------------------------------------------- C5
\* the winding of triangle i in view space, seen down -z: > 0 counter-clockwise
Winding(i) ==
    LET v == ViewOf(i)
    IN  (v[2].position[1] - v[1].position[1]) * (v[3].position[2] - v[1].position[2])
        - (v[2].position[2] - v[1].position[2]) * (v[3].position[1] - v[1].position[1])

\* C5: a triangle the face cull discards makes no call after the cull (no
\* projection, no write), the triangles after it are still processed in order, a
\* clockwise triangle is discarded under FrontFace=CCW, FaceCull=Back, and with
\* FaceCull=None no triangle is discarded.
C5_CullDiscards ==
    IsDraw =>
        LET q == Len(call.arg.vertices) \div 3
        IN  /\ \A i \in 0..(q - 1) :
                   LET names == OpsOf(EventsOf(i))
                   IN  /\ Len(names) >= 2 /\ names[1] = "triangle"
                       /\ Discarded(i) => names = <<"triangle", "cull">>
                       /\ ~Discarded(i) => names[2] = "project"
                       /\ (/\ call.self.front_face = "CCW"
                           /\ call.self.cull = "Back"
                           /\ Winding(i) < 0) => names = <<"triangle", "cull">>
            /\ OpsOf(EventsOp("triangle")) = [i \in 1..q |-> "triangle"]
            /\ \A k \in 1..(Len(log) - 1) : log[k].tri <= log[k + 1].tri
            /\ (call.self.cull = "None" => EventsOp("cull") = <<>>)

\* FrontFace=CCW, FaceCull=Back: the clockwise first triangle is discarded and the
\* second triangle of the same draw is written
C5_Witness ==
    /\ FillDraw
    /\ call.self.front_face = "CCW" /\ call.self.cull = "Back"
    /\ Len(call.arg.vertices) >= 6
    /\ Winding(0) < 0
    /\ OpsOf(EventsOf(0)) = <<"triangle", "cull">>
    /\ \E k \in 1..Len(log) : log[k].op = "color_set" /\ log[k].tri = 1

\* ------------------------------------------------------------------- C6
\* vertex v with z replaced by 1/z
WithReciprocalZ(v) ==
    [v EXCEPT !.position = <<@[1], @[2], Rat(1, @[3]), @[4]>>]

\* the three lines of triangle i: (v0, v1), (v1, v2), (v2, v0)
EdgesOf(i) ==
    LET vs == ScreenOf(i)
        r == <<WithReciprocalZ(vs[1]), WithReciprocalZ(vs[2]), WithReciprocalZ(vs[3])>>
    IN  <<<<r[1], r[2]>>, <<r[2], r[3]>>, <<r[3], r[1]>>>>

\* the pixels on an edge line of a triangle of the last draw that is not discarded
OnSomeEdge ==
    UNION { UNION { LinePixels(EdgesOf(i)[e][1].position, EdgesOf(i)[e][2].position) :
                    e \in 1..3 } :
            i \in {j \in 0..((Len(call.arg.vertices) \div 3) - 1) : ~Discarded(j)} }

\* C6: with the wireframe flag set a draw never runs the pixel loop; each triangle
\* not discarded makes exactly the three rasterize_line calls (v0,v1), (v1,v2),
\* (v2,v0), endpoints with z replaced by 1/z, and a pixel on none of these lines
\* keeps its colour and depth. With the flag cleared (disable_framework) the pixel
\* loop runs and rasterize_line is not called.
C6_Wireframe ==
    /\ (call.op = "enable_framework" => enable_framework)
    /\ (call.op = "disable_framework" => ~enable_framework)
    /\ WireDraw =>
           /\ \A k \in 1..Len(log) :
                  log[k].op \in {"triangle", "cull", "project", "rasterize_line"}
           /\ \A i \in 0..((Len(call.arg.vertices) \div 3) - 1) :
                  ~Discarded(i) =>
                      LET ev == EventsOf(i)
                      IN  /\ OpsOf(ev) = <<"triangle", "project", "rasterize_line",
                                           "rasterize_line", "rasterize_line">>
                          /\ <<ev[3].v, ev[4].v, ev[5].v>> = EdgesOf(i)
           /\ \A p \in Pixels \ OnSomeEdge :
                  /\ color_attachment[p] = before.color[p]
                  /\ depth_attachment[p] = before.depth[p]
    /\ FillDraw =>
           /\ EventsOp("rasterize_line") = <<>>
           /\ \A i \in 0..((Len(call.arg.vertices) \div 3) - 1) :
                  ~Discarded(i) =>
                      Len(SelectSeq(EventsOf(i), LAMBDA e : e.op = "visit"))
                          = Len(PixelWalk(ScreenOf(i)))

\* a wireframe draw of a triangle that changed a pixel and left another, off the
\* three lines, as it was
C6_Witness ==
    /\ WireDraw
    /\ EventsOp("rasterize_line") # <<>>
    /\ ~Unchanged
    /\ Pixels \ OnSomeEdge # {}

\* ------------------------------------------------------------------- C7
\* the last two operations are fill draws with the same model and vertices
SameDrawTwice ==
    /\ FillDraw
    /\ before.call.op = "draw_triangle"
    /\ before.call.arg = call.arg
    /\ before.call.self = call.self

\* C7: the second of two back-to-back fill draws with the same arguments and
\* configuration leaves both attachments as the first draw left them.
C7_SecondDrawSame == SameDrawTwice => Unchanged

\* the same two-triangle draw twice, the second one writing pixels again
C7_Witness ==
    /\ SameDrawTwice
    /\ EventsOp("color_set") # <<>>
    /\ \E p \in Pixels : color_attachment[p] # R(0)

\* ------------------------------------------------------------------- C8
Near == call.self.camera.frustum.near

\* the log from event k on follows the rule, from attachments col and dep, and
\* ends in the attachments of the state
RECURSIVE Follows(_, _, _)
Follows(k, col, dep) ==
    IF k > Len(log)
    THEN col = color_attachment /\ dep = depth_attachment
    ELSE
    LET e == log[k]
        p == <<e.x, e.y>>
    IN  IF e.op \in {"triangle", "project", "cull"} THEN Follows(k + 1, col, dep)
        ELSE IF e.op # "visit" THEN FALSE    \* a call outside a visited pixel's turn
        ELSE IF ~e.v[1] \/ ~FLt(e.v[2], Near)
             THEN \* invalid weights or z >= near: the next call is a new pixel's
                  (k = Len(log) \/ log[k + 1].op \in {"visit", "triangle"})
                  /\ Follows(k + 1, col, dep)
        ELSE IF ~FLe(dep[p], e.v[2])
             THEN \* depth(x, y) > z: the depth is read, nothing else
                  /\ k + 1 <= Len(log)
                  /\ log[k + 1] = Ev("depth_get", e.tri, e.x, e.y, dep[p])
                  /\ (k + 1 = Len(log) \/ log[k + 2].op \in {"visit", "triangle"})
                  /\ Follows(k + 2, col, dep)
        ELSE \* the fragment passes: shaded, colour and depth written together
             /\ k + 4 <= Len(log)
             /\ log[k + 1] = Ev("depth_get", e.tri, e.x, e.y, dep[p])
             /\ log[k + 2].op = "call_pixel_shading"
             /\ log[k + 3] = Ev("color_set", e.tri, e.x, e.y,
                                call_pixel_shading(log[k + 2].v))
             /\ log[k + 4] = Ev("depth_set", e.tri, e.x, e.y, e.v[2])
             /\ FLt(log[k + 4].v, Near)
             /\ Follows(k + 5, [col EXCEPT ![p] = log[k + 3].v],
                        [dep EXCEPT ![p] = log[k + 4].v])

\* C8: in the fill path a visited pixel is shaded and has its colour and depth
\* written (depth z, z < near) exactly when the weights are valid, z < near and
\* depth(x, y) <= z; in every other case neither is written and the pixel shader
\* is not called.
C8_WriteIffPass == FillDraw => Follows(1, before.color, before.depth)

\* a fill draw with a pixel of each kind: outside the triangle, rejected by the
\* near test, rejected by the depth test, written
C8_Witness ==
    /\ FillDraw
    /\ \E k \in 1..Len(log) : log[k].op = "visit" /\ ~log[k].v[1]
    /\ \E k \in 1..Len(log) :
           log[k].op = "visit" /\ log[k].v[1] /\ ~FLt(log[k].v[2], Near)
    /\ \E k \in 1..Len(log) :
           /\ log[k].op = "depth_get"
           /\ (k = Len(log) \/ log[k + 1].op # "call_pixel_shading")
    /\ EventsOp("depth_set") # <<>>

\* ------------------------------------------------------------------- C9
\* the pixels of [xmin..xmax] x [ymin..ymax] of triangle i, with
\* xmin = max(ceil(min_x), 0), xmax = min(floor(max_x), W-1) and likewise in y
BoxOf(i) ==
    LET xmin == IMax(Ceil(MinOf(i, 1)), 0)
        ymin == IMax(Ceil(MinOf(i, 2)), 0)
        xmax == IMin(Floor(MaxOf(i, 1)), W - 1)
        ymax == IMin(Floor(MaxOf(i, 2)), H - 1)
    IN  (xmin..xmax) \X (ymin..ymax)

VisitsOf(i) == SelectSeq(log, LAMBDA e : e.op = "visit" /\ e.tri = i)
VisitedBy(i) == LET v == VisitsOf(i) IN {<<v[k].x, v[k].y>> : k \in 1..Len(v)}

\* C9: the fill loop visits exactly the pixels of [xmin..xmax] x [ymin..ymax], each
\* once, and none at all when xmin > xmax or ymin > ymax.
C9_VisitsExactlyBox ==
    FillDraw =>
        \A i \in 0..((Len(call.arg.vertices) \div 3) - 1) :
            ~Discarded(i) =>
                /\ VisitedBy(i) = BoxOf(i)
                /\ Len(VisitsOf(i)) = Cardinality(BoxOf(i))

\* ------------------------------------------------------------------ C10
\* the triangles of the log are in array order, none started before the one
\* before it is finished
TrianglesInOrder == \A k \in 1..(Len(log) - 1) : log[k].tri <= log[k + 1].tri

RowMajor(a, b) == a.y < b.y \/ (a.y = b.y /\ a.x < b.x)
ColumnMajor(a, b) == a.x < b.x \/ (a.x = b.x /\ a.y < b.y)

\* C10 (as claimed): triangles in array order, and within a triangle the pixels in
\* row-major order: every x of row y, in increasing x, before any pixel of row y+1.
C10_RowMajor ==
    FillDraw =>
        /\ TrianglesInOrder
        /\ LET v == EventsOp("visit")
           IN  \A k \in 1..(Len(v) - 1) :
                   v[k].tri = v[k + 1].tri => RowMajor(v[k], v[k + 1])

\* C10 (amended): triangles in array order, and within a triangle the pixels in
\* column-major order: every y of column x, in increasing y, before any pixel of
\* column x+1.
C10_ColumnMajor ==
    FillDraw =>
        /\ TrianglesInOrder
        /\ LET v == EventsOp("visit")
           IN  \A k \in 1..(Len(v) - 1) :
                   v[k].tri = v[k + 1].tri => ColumnMajor(v[k], v[k + 1])

\* a fill draw of two triangles, each visiting two columns and two rows
C10_Witness ==
    /\ FillDraw
    /\ \A i \in {0, 1} :
           /\ \E a, b \in VisitedBy(i) : a[1] # b[1]
           /\ \E a, b \in VisitedBy(i) : a[2] # b[2]

====
